---- MODULE Spec2Model ----
(***************************************************************************)
(* A model of playhouse/migrate.py: the Operation wrapper and the migrate  *)
(* driver, the schema migrators of the three dialects, and the SQLite      *)
(* table rebuild with its text-level parsing of CREATE TABLE statements.   *)
(* SQL text is modelled as text: a TLA+ string, read character by          *)
(* character, so that the regular expressions and str.replace calls of the *)
(* source act on the model as they act on the program.                     *)
(***************************************************************************)
EXTENDS Integers, Sequences, FiniteSets, TLC

VARIABLES
    database,      \* the database collaborator: dialect, tables, indexes
    operations,    \* the arguments of migrate
    next_op,       \* position of migrate's for loop
    pending,       \* results still to be handled by _handle_result, depth first
    executed,      \* history: every statement submitted to execute_sql
    pc,            \* "running" | "done" | "failed"
    error,         \* the exception that reached the caller of migrate
    original,      \* history: the database as migrate found it
    create_table,  \* the CREATE TABLE text given to the column-list parser
    column_defs    \* what the parser made of it

vars == <<database, operations, next_op, pending, executed, pc, error,
          original, create_table, column_defs>>

driverVars == <<database, operations, next_op, pending, executed, pc, error, original>>
parserVars == <<create_table, column_defs>>

(***************************************************************************)
(* Text: Python str operations.                                            *)
(***************************************************************************)
Ch(s, i) == SubSeq(s, i, i)

UpperCase == "ABCDEFGHIJKLMNOPQRSTUVWXYZ"
LowerCase == "abcdefghijklmnopqrstuvwxyz"
Digits == "0123456789"

CharsOf(s) == {Ch(s, i) : i \in 1..Len(s)}

\* \w of the re module (ASCII part)
WordChars == CharsOf(UpperCase) \cup CharsOf(LowerCase) \cup CharsOf(Digits) \cup {"_"}

Whitespace == {" "}

\* s[from:].startswith(sub), from counted from 1
StartsWithAt(s, sub, from) ==
    /\ from + Len(sub) - 1 <= Len(s)
    /\ SubSeq(s, from, from + Len(sub) - 1) = sub

StartsWith(s, sub) == StartsWithAt(s, sub, 1)

Least(S) == CHOOSE x \in S : \A y \in S : x <= y
Greatest(S) == CHOOSE x \in S : \A y \in S : y <= x

\* s.find(sub, from): the first position >= from where sub occurs, 0 if none
Find(s, sub, from) ==
    LET at == {i \in from..(Len(s) - Len(sub) + 1) : StartsWithAt(s, sub, i)}
    IN IF at = {} THEN 0 ELSE Least(at)

Contains(s, sub) == Find(s, sub, 1) # 0

\* s.replace(old, new): every non-overlapping occurrence, leftmost first
RECURSIVE ReplaceFrom(_, _, _, _)
ReplaceFrom(s, old, new, from) ==
    LET at == Find(s, old, from) IN
    IF at = 0 THEN SubSeq(s, from, Len(s))
    ELSE SubSeq(s, from, at - 1) \o new
         \o ReplaceFrom(s, old, new, at + Len(old))

Replace(s, old, new) == IF old = "" THEN s ELSE ReplaceFrom(s, old, new, 1)

RECURSIVE LStrip(_)
LStrip(s) == IF s # "" /\ Head(s) \in Whitespace THEN LStrip(Tail(s)) ELSE s

RECURSIVE RStrip(_)
RStrip(s) ==
    IF s # "" /\ Ch(s, Len(s)) \in Whitespace
    THEN RStrip(SubSeq(s, 1, Len(s) - 1)) ELSE s

\* s.strip()
Strip(s) == RStrip(LStrip(s))

LowerCh(c) ==
    IF c \in CharsOf(UpperCase)
    THEN Ch(LowerCase, CHOOSE i \in 1..Len(UpperCase) : Ch(UpperCase, i) = c)
    ELSE c

\* s.lower()
RECURSIVE Lower(_)
Lower(s) == IF s = "" THEN "" ELSE LowerCh(Head(s)) \o Lower(Tail(s))

\* ', '.join(items)
RECURSIVE Join(_, _)
Join(sep, items) ==
    IF items = <<>> THEN ""
    ELSE IF Len(items) = 1 THEN items[1]
    ELSE items[1] \o sep \o Join(sep, Tail(items))

(***************************************************************************)
(* SqliteMigrator's regular expressions.                                   *)
(***************************************************************************)
\* the last position of c in s up to position i, 0 if none
LastIndexOf(s, c, i) ==
    LET at == {j \in 1..i : Ch(s, j) = c}
    IN IF at = {} THEN 0 ELSE Greatest(at)

\* column_re = '(.+?)\((.+)\)' under search(): the groups, or <<>> for None.
\* Group 1 is lazy and at least one character long, so it ends before the
\* first "(" at position >= 2 that is followed, at least two characters
\* later, by a ")"; group 2 is greedy and runs to the last ")".
\* The search starts at the first position a match can start at: none can
\* start later when none starts there.
column_re(s) ==
    LET open == Find(s, "(", 2)
        close == LastIndexOf(s, ")", Len(s))
    IN IF open # 0 /\ close >= open + 2
       THEN <<SubSeq(s, 1, open - 1), SubSeq(s, open + 1, close - 1)>>
       ELSE <<>>

\* One match of column_split_re = '(?:[^,(]|\([^)]*\))+' starting at position
\* i: the position after the match (i itself when nothing matches).
\* [^,(] runs to the next "," or "("; at a "(" the second alternative runs
\* to the first ")" after it, whatever lies between.
RECURSIVE SplitMatchEnd(_, _)
SplitMatchEnd(s, i) ==
    LET stops == {j \in i..Len(s) : Ch(s, j) \in {",", "("}}
        j == IF stops = {} THEN Len(s) + 1 ELSE Least(stops)
    IN IF j > Len(s) \/ Ch(s, j) = "," THEN j
       ELSE LET close == Find(s, ")", j + 1) IN
            IF close = 0 THEN j ELSE SplitMatchEnd(s, close + 1)

\* column_split_re.findall(s)
RECURSIVE SplitFindAll(_, _)
SplitFindAll(s, i) ==
    IF i > Len(s) THEN <<>>
    ELSE LET e == SplitMatchEnd(s, i) IN
         IF e = i THEN SplitFindAll(s, i + 1)
         ELSE <<SubSeq(s, i, e - 1)>> \o SplitFindAll(s, e)

column_split_re(s) == SplitFindAll(s, 1)

\* the position after the run of \w characters of s that starts at i
WordEnd(s, i) ==
    Least({j \in i..(Len(s) + 1) : j > Len(s) \/ Ch(s, j) \notin WordChars})

\* column_name_re = '"?([\w]+)' under match(): the group, or "" for None
column_name_re(s) ==
    LET from == IF StartsWith(s, "\"") THEN 2 ELSE 1
    IN SubSeq(s, from, WordEnd(s, from) - 1)

\* The column definitions of a CREATE TABLE statement, as _update_column
\* parses them: column_re, then column_split_re, each item stripped.
ParseColumnDefs(sql) ==
    LET groups == column_re(sql)
        items == column_split_re(groups[2])
    IN [i \in 1..Len(items) |-> Strip(items[i])]

(***************************************************************************)
(* The compiler collaborator: what parse_node makes of the clauses the     *)
(* migrators build.  A statement is [sql, params].                         *)
(***************************************************************************)
NullValue == "NULL"

\* the quote character of the compiler (the same for every dialect here)
quote_char == "\""

\* Entity(name)
Entity(name) == quote_char \o name \o quote_char

\* Clause of nodes: the nodes joined by spaces
Clause(parts) == Join(" ", parts)

\* EnclosedClause of [Entity(col) for col in names]
EnclosedClause(names) ==
    "(" \o Join(", ", [i \in 1..Len(names) |-> Entity(names[i])]) \o ")"

\* CommaClause of [Entity(col) for col in names]
CommaClause(names) ==
    Join(", ", [i \in 1..Len(names) |-> Entity(names[i])])

Statement(sql, params) == [kind |-> "node", sql |-> sql, params |-> params]

\* compiler.field_definition(field): name, type, NOT NULL unless field.null
field_definition(field, name) ==
    Clause(<<Entity(name), field.db_field>>
           \o (IF field.null THEN <<>> ELSE <<"NOT NULL">>))

(***************************************************************************)
(* The database collaborator.  database.tables maps a table name to        *)
(* [sql, columns, rows]; database.indexes maps an index name to            *)
(* [table, sql, columns].  A row is the tuple of its cells, in column      *)
(* order.  Exec answers execute_sql: [ok, db, error].                      *)
(***************************************************************************)
With(f, k, v) == [x \in (DOMAIN f) \cup {k} |-> IF x = k THEN v ELSE f[x]]
Without(f, k) == [x \in (DOMAIN f) \ {k} |-> f[x]]

Range(seq) == {seq[i] : i \in 1..Len(seq)}

RECURSIVE SelectSeqBy(_, _)
SelectSeqBy(seq, keep) ==
    IF seq = <<>> THEN <<>>
    ELSE (IF Head(seq) \in keep THEN <<Head(seq)>> ELSE <<>>)
         \o SelectSeqBy(Tail(seq), keep)

ColumnNames(table) == [i \in 1..Len(table.columns) |-> table.columns[i].name]

\* the position of column name in the table, 0 if it has none
ColumnIndex(table, name) ==
    IF \E i \in 1..Len(table.columns) : table.columns[i].name = name
    THEN CHOOSE i \in 1..Len(table.columns) : table.columns[i].name = name
    ELSE 0

\* the identifiers of a statement: the texts between successive quote pairs
RECURSIVE QuotedNames(_, _, _)
QuotedNames(sql, q, from) ==
    LET open == Find(sql, q, from) IN
    IF open = 0 THEN <<>>
    ELSE LET close == Find(sql, q, open + 1) IN
         IF close = 0 THEN <<>>
         ELSE <<SubSeq(sql, open + 1, close - 1)>> \o QuotedNames(sql, q, close + 1)

\* how many parenthesised groups are open at position i of s
DepthAt(s, i) ==
    Cardinality({j \in 1..(i - 1) : Ch(s, j) = "("})
    - Cardinality({j \in 1..(i - 1) : Ch(s, j) = ")"})

\* sub occurs in s outside every parenthesised group
ContainsOutside(s, sub) ==
    \E i \in 1..Len(s) : StartsWithAt(s, sub, i) /\ DepthAt(s, i) = 0

\* the items of a comma-separated list, split at the commas that lie outside
\* every parenthesised group: the database's own reading of a column list
TopLevelItems(s) ==
    LET commas == {i \in 1..Len(s) : Ch(s, i) = "," /\ DepthAt(s, i) = 0}
        cut(k) == IF k = 0 THEN 0
                  ELSE IF k > Cardinality(commas) THEN Len(s) + 1
                  ELSE CHOOSE i \in commas : Cardinality({j \in commas : j < i}) = k - 1
    IN [k \in 1..(Cardinality(commas) + 1) |-> SubSeq(s, cut(k - 1) + 1, cut(k) - 1)]

TableConstraintWords == {"PRIMARY", "FOREIGN", "UNIQUE", "CHECK", "CONSTRAINT"}

\* what ends the type of a column definition
ColumnConstraintWords == {"NOT NULL", "PRIMARY KEY", "UNIQUE", "AUTO_INCREMENT"}

IsTableConstraint(def) ==
    /\ ~StartsWith(def, "\"")
    /\ SubSeq(def, 1, WordEnd(def, 1) - 1) \in TableConstraintWords

\* the column a column definition declares
ColumnOfDef(def) ==
    LET name == column_name_re(def)
        rest == Strip(SubSeq(def, WordEnd(def, IF StartsWith(def, "\"") THEN 2 ELSE 1)
                                  + (IF StartsWith(def, "\"") THEN 1 ELSE 0), Len(def)))
    IN [name |-> name,
        definition |-> Strip(SubSeq(rest, 1, Least({Len(rest) + 1} \cup
                           ({Find(rest, w, 1) : w \in ColumnConstraintWords} \ {0})) - 1)),
        null |-> ~ContainsOutside(def, "NOT NULL"),
        key |-> IF ContainsOutside(def, "PRIMARY KEY") THEN "PRI"
                ELSE IF ContainsOutside(def, "UNIQUE") THEN "UNI" ELSE "",
        extra |-> IF ContainsOutside(def, "AUTO_INCREMENT") THEN "auto_increment" ELSE ""]

Ok(db) == [ok |-> TRUE, db |-> db, error |-> ""]
Fail(db, err) == [ok |-> FALSE, db |-> db, error |-> err]

DropIndexesOf(indexes, table) ==
    [n \in {m \in DOMAIN indexes : indexes[m].table # table} |-> indexes[n]]

Names(sql) == QuotedNames(sql, quote_char, 1)

HasTable(db, t) == t \in DOMAIN db.tables

HasColumn(db, t, c) == HasTable(db, t) /\ ColumnIndex(db.tables[t], c) # 0

SetTable(db, t, table) == [db EXCEPT !.tables = With(db.tables, t, table)]

\* the cells of column c, one per row
Cells(table, c) ==
    LET k == ColumnIndex(table, c) IN [r \in 1..Len(table.rows) |-> table.rows[r][k]]

HoldsNull(table, c) == NullValue \in Range(Cells(table, c))

RemoveAt(seq, k) == [i \in 1..(Len(seq) - 1) |-> IF i < k THEN seq[i] ELSE seq[i + 1]]

\* DROP TABLE [IF EXISTS] t: the table goes, and its indexes with it
DropTable(db, t) ==
    [db EXCEPT !.tables = Without(db.tables, t),
               !.indexes = DropIndexesOf(db.indexes, t)]

\* CREATE TABLE header (definitions)
CreateTable(db, sql) ==
    LET open == Find(sql, "(", 1)
        close == LastIndexOf(sql, ")", Len(sql))
        named == Names(SubSeq(sql, 1, open - 1))
        items == IF open = 0 \/ close < open THEN <<>>
                 ELSE TopLevelItems(SubSeq(sql, open + 1, close - 1))
        defs == [i \in 1..Len(items) |-> Strip(items[i])]
        colDefs == SelectSeqBy(defs, {d \in Range(defs) : ~IsTableConstraint(d)})
        conDefs == SelectSeqBy(defs, {d \in Range(defs) : IsTableConstraint(d)})
        cols == [i \in 1..Len(colDefs) |-> ColumnOfDef(colDefs[i])]
        colNames == {cols[i].name : i \in 1..Len(cols)}
    IN IF named = <<>> \/ cols = <<>> THEN Fail(db, "OperationalError")
       ELSE IF HasTable(db, named[1]) THEN Fail(db, "OperationalError")
       ELSE IF "" \in colNames \/ Cardinality(colNames) # Len(cols)
            THEN Fail(db, "OperationalError")
       ELSE IF \E i \in 1..Len(conDefs) : ~(Range(Names(conDefs[i])) \subseteq colNames)
            THEN Fail(db, "OperationalError")
       ELSE Ok(SetTable(db, named[1], [sql |-> sql, columns |-> cols, rows |-> <<>>]))

\* INSERT INTO target (columns) SELECT columns FROM source
InsertSelect(db, sql) ==
    LET n == Names(sql)
        k == (Len(n) - 2) \div 2
        target == n[1]
        source == n[Len(n)]
        into == SubSeq(n, 2, k + 1)
        from == SubSeq(n, k + 2, Len(n) - 1)
    IN IF Len(n) < 2 \/ ~HasTable(db, target) \/ ~HasTable(db, source)
       THEN Fail(db, "OperationalError")
       ELSE IF \E i \in 1..k : ~HasColumn(db, target, into[i]) \/ ~HasColumn(db, source, from[i])
            THEN Fail(db, "OperationalError")
       ELSE LET T == db.tables[target]
                S == db.tables[source]
                cell(r, c) ==
                    IF \E i \in 1..k : into[i] = T.columns[c].name
                    THEN S.rows[r][ColumnIndex(S, from[CHOOSE i \in 1..k : into[i] = T.columns[c].name])]
                    ELSE NullValue
                rows == [r \in 1..Len(S.rows) |-> [c \in 1..Len(T.columns) |-> cell(r, c)]]
            IN IF \E r \in 1..Len(rows), c \in 1..Len(T.columns) :
                      ~T.columns[c].null /\ rows[r][c] = NullValue
               THEN Fail(db, "IntegrityError")
               ELSE Ok(SetTable(db, target, [T EXCEPT !.rows = T.rows \o rows]))

\* ALTER TABLE old RENAME TO new
RenameTable(db, old, new) ==
    IF ~HasTable(db, old) \/ HasTable(db, new) THEN Fail(db, "OperationalError")
    ELSE LET T == db.tables[old]
             moved == [T EXCEPT !.sql = Replace(T.sql, Entity(old), Entity(new))]
         IN Ok([db EXCEPT
                  !.tables = With(Without(db.tables, old), new, moved),
                  !.indexes = [i \in DOMAIN db.indexes |->
                      IF db.indexes[i].table = old
                      THEN [db.indexes[i] EXCEPT
                              !.table = new,
                              !.sql = Replace(db.indexes[i].sql, Entity(old), Entity(new))]
                      ELSE db.indexes[i]]])

\* CREATE [UNIQUE] INDEX name ON table (columns)
CreateIndex(db, sql) ==
    LET n == Names(sql) IN
    IF Len(n) < 3 THEN Fail(db, "OperationalError")
    ELSE IF n[1] \in DOMAIN db.indexes \/ ~HasTable(db, n[2])
         THEN Fail(db, "OperationalError")
    ELSE IF \E i \in 3..Len(n) : ~HasColumn(db, n[2], n[i])
         THEN Fail(db, "OperationalError")
    ELSE Ok([db EXCEPT !.indexes = With(db.indexes, n[1],
                [table |-> n[2], sql |-> sql, columns |-> SubSeq(n, 3, Len(n))])])

\* ALTER TABLE t ADD COLUMN definition
AddColumn(db, sql) ==
    LET n == Names(sql)
        def == SubSeq(sql, Find(sql, " ADD COLUMN ", 1) + Len(" ADD COLUMN "), Len(sql))
        col == ColumnOfDef(def)
    IN IF Len(n) < 2 \/ ~HasTable(db, n[1]) \/ HasColumn(db, n[1], n[2])
       THEN Fail(db, "OperationalError")
       ELSE LET T == db.tables[n[1]] IN
            IF ~col.null /\ T.rows # <<>> THEN Fail(db, "OperationalError")
            ELSE Ok(SetTable(db, n[1],
                   [sql |-> IF T.sql = "" THEN ""
                            ELSE SubSeq(T.sql, 1, LastIndexOf(T.sql, ")", Len(T.sql)) - 1)
                                 \o ", " \o def \o ")",
                    columns |-> T.columns \o <<col>>,
                    rows |-> [r \in 1..Len(T.rows) |-> T.rows[r] \o <<NullValue>>]]))

\* UPDATE t SET c = ?
Update(db, sql, params) ==
    LET n == Names(sql) IN
    IF Len(n) < 2 \/ Len(params) # 1 \/ ~HasColumn(db, n[1], n[2])
    THEN Fail(db, "OperationalError")
    ELSE LET T == db.tables[n[1]]
             k == ColumnIndex(T, n[2])
         IN IF ~T.columns[k].null /\ params[1] = NullValue /\ T.rows # <<>>
            THEN Fail(db, "IntegrityError")
            ELSE Ok(SetTable(db, n[1],
                   [T EXCEPT !.rows = [r \in 1..Len(T.rows) |->
                                         [T.rows[r] EXCEPT ![k] = params[1]]]]))

\* ALTER TABLE t DROP COLUMN c [CASCADE]
DropColumn(db, sql) ==
    LET n == Names(sql) IN
    IF Len(n) < 2 \/ ~HasColumn(db, n[1], n[2]) THEN Fail(db, "OperationalError")
    ELSE LET T == db.tables[n[1]]
             k == ColumnIndex(T, n[2])
         IN IF Len(T.columns) = 1 THEN Fail(db, "OperationalError")
            ELSE Ok([db EXCEPT
                  !.tables = With(db.tables, n[1],
                      [T EXCEPT !.columns = RemoveAt(T.columns, k),
                                !.rows = [r \in 1..Len(T.rows) |-> RemoveAt(T.rows[r], k)]]),
                  !.indexes = [i \in {j \in DOMAIN db.indexes :
                                        ~(db.indexes[j].table = n[1]
                                          /\ n[2] \in Range(db.indexes[j].columns))}
                               |-> db.indexes[i]]])

\* the column old of table t redefined as col (its cells kept)
Redefine(db, t, old, col) ==
    LET T == db.tables[t]
        k == ColumnIndex(T, old)
    IN IF ~col.null /\ HoldsNull(T, old) THEN Fail(db, "IntegrityError")
       ELSE IF col.name # old /\ HasColumn(db, t, col.name) THEN Fail(db, "OperationalError")
       ELSE Ok([db EXCEPT
              !.tables = With(db.tables, t, [T EXCEPT !.columns[k] = col]),
              !.indexes = [i \in DOMAIN db.indexes |->
                  IF db.indexes[i].table = t
                  THEN [db.indexes[i] EXCEPT !.columns =
                          [j \in 1..Len(db.indexes[i].columns) |->
                              IF db.indexes[i].columns[j] = old THEN col.name
                              ELSE db.indexes[i].columns[j]]]
                  ELSE db.indexes[i]]])

\* ALTER TABLE t RENAME COLUMN old TO new
RenameColumn(db, sql) ==
    LET n == Names(sql) IN
    IF Len(n) < 3 \/ ~HasColumn(db, n[1], n[2]) THEN Fail(db, "OperationalError")
    ELSE LET T == db.tables[n[1]] IN
         Redefine(db, n[1], n[2], [T.columns[ColumnIndex(T, n[2])] EXCEPT !.name = n[3]])

\* ALTER TABLE t ALTER COLUMN c SET NOT NULL | DROP NOT NULL
AlterColumn(db, sql) ==
    LET n == Names(sql) IN
    IF Len(n) < 2 \/ ~HasColumn(db, n[1], n[2]) THEN Fail(db, "OperationalError")
    ELSE LET T == db.tables[n[1]] IN
         Redefine(db, n[1], n[2],
                  [T.columns[ColumnIndex(T, n[2])] EXCEPT !.null = ~Contains(sql, " SET NOT NULL")])

\* ALTER TABLE t MODIFY definition | ALTER TABLE t CHANGE old definition
ModifyColumn(db, sql) ==
    LET n == Names(sql)
        change == Contains(sql, " CHANGE ")
        word == IF change THEN " CHANGE " \o Entity(n[2]) \o " " ELSE " MODIFY "
        def == SubSeq(sql, Find(sql, word, 1) + Len(word), Len(sql))
    IN IF Len(n) < (IF change THEN 3 ELSE 2) \/ ~HasColumn(db, n[1], n[2])
       THEN Fail(db, "OperationalError")
       ELSE Redefine(db, n[1], n[2], ColumnOfDef(def))

\* What the dialect's engine accepts of ALTER TABLE.
Exec(db, sql, params) ==
    LET n == Names(sql)
        lite == db.dialect = "sqlite"
        my == db.dialect = "mysql"
        pg == db.dialect = "postgres"
    IN IF StartsWith(sql, "DROP TABLE IF EXISTS ")
       THEN (IF n = <<>> THEN Fail(db, "OperationalError") ELSE Ok(DropTable(db, n[1])))
       ELSE IF StartsWith(sql, "DROP TABLE ")
       THEN (IF n = <<>> \/ ~HasTable(db, n[1]) THEN Fail(db, "OperationalError")
             ELSE Ok(DropTable(db, n[1])))
       ELSE IF StartsWith(sql, "CREATE TABLE ") THEN CreateTable(db, sql)
       ELSE IF StartsWith(sql, "INSERT INTO ") THEN InsertSelect(db, sql)
       ELSE IF StartsWith(sql, "CREATE INDEX ") \/ StartsWith(sql, "CREATE UNIQUE INDEX ")
       THEN CreateIndex(db, sql)
       ELSE IF StartsWith(sql, "UPDATE ") THEN Update(db, sql, params)
       ELSE IF ~StartsWith(sql, "ALTER TABLE ") THEN Fail(db, "OperationalError")
       ELSE IF Contains(sql, " ADD COLUMN ") THEN AddColumn(db, sql)
       ELSE IF Contains(sql, " RENAME TO ")
       THEN (IF Len(n) < 2 THEN Fail(db, "OperationalError") ELSE RenameTable(db, n[1], n[2]))
       ELSE IF Contains(sql, " DROP COLUMN ") /\ ~lite THEN DropColumn(db, sql)
       ELSE IF Contains(sql, " RENAME COLUMN ") /\ pg THEN RenameColumn(db, sql)
       ELSE IF Contains(sql, " ALTER COLUMN ") /\ pg THEN AlterColumn(db, sql)
       ELSE IF (Contains(sql, " MODIFY ") \/ Contains(sql, " CHANGE ")) /\ my
       THEN ModifyColumn(db, sql)
       ELSE Fail(db, "OperationalError")

(***************************************************************************)
(* Operation and the @operation decorator.  Calling a decorated method     *)
(* without generate=True builds an Operation and touches nothing; the      *)
(* method body runs when the Operation is run.                             *)
(***************************************************************************)
NoField == [null |-> TRUE, default |-> [kind |-> "none", value |-> ""],
            foreign_key |-> FALSE, to_field |-> "", db_field |-> ""]

Operation(method, table, column, new_name, field, fn) ==
    [kind |-> "op", method |-> method, table |-> table, column |-> column,
     new_name |-> new_name, field |-> field, fn |-> fn]

\* what a method body does: raise, or return a result (the list of its items)
Raise(exception) == [raised |-> exception, result |-> <<>>]
Return(items) == [raised |-> "", result |-> items]

(***************************************************************************)
(* SchemaMigrator                                                          *)
(***************************************************************************)
\* field.default, called when it is callable
ResolveDefault(field) ==
    IF field.default.kind = "none" THEN NullValue ELSE field.default.value

SchemaMigrator_apply_default(op) ==
    Return(<<Statement(
        Clause(<<"UPDATE", Entity(op.table), "SET", Entity(op.column) \o " = ?">>),
        <<ResolveDefault(op.field)>>)>>)

SchemaMigrator_alter_add_column(op) ==
    Return(<<Statement(
        Clause(<<"ALTER TABLE", Entity(op.table), "ADD COLUMN",
                 field_definition([op.field EXCEPT !.null = TRUE], op.column)>>),
        <<>>)>>)

\* add_column that constrains before it backfills
SchemaMigrator_add_column_constrain_first(op) ==
    IF ~op.field.null /\ op.field.default.kind = "none" THEN Raise("ValueError")
    ELSE IF op.field.foreign_key /\ op.field.to_field = "" THEN Raise("ValueError")
    ELSE Return(
        <<Operation("alter_add_column", op.table, op.column, "", op.field, "")>>
        \o (IF ~op.field.null
            THEN <<Operation("add_not_null", op.table, op.column, "", NoField, ""),
                   Operation("apply_default", op.table, op.column, "", op.field, "")>>
            ELSE <<>>))

\* add_column that does not look at the field's configuration
SchemaMigrator_add_column_unchecked(op) ==
    Return(
        <<Operation("alter_add_column", op.table, op.column, "", op.field, "")>>
        \o (IF ~op.field.null
            THEN <<Operation("apply_default", op.table, op.column, "", op.field, ""),
                   Operation("add_not_null", op.table, op.column, "", NoField, "")>>
            ELSE <<>>))

SchemaMigrator_add_column(op) ==
    IF ~op.field.null /\ op.field.default.kind = "none" THEN Raise("ValueError")
    ELSE IF op.field.foreign_key /\ op.field.to_field = "" THEN Raise("ValueError")
    ELSE Return(
        <<Operation("alter_add_column", op.table, op.column, "", op.field, "")>>
        \o (IF ~op.field.null
            THEN <<Operation("apply_default", op.table, op.column, "", op.field, ""),
                   Operation("add_not_null", op.table, op.column, "", NoField, "")>>
            ELSE <<>>))

SchemaMigrator_drop_column(op) ==
    Return(<<Statement(
        Clause(<<"ALTER TABLE", Entity(op.table), "DROP COLUMN", Entity(op.column), "CASCADE">>),
        <<>>)>>)

SchemaMigrator_rename_column(op) ==
    Return(<<Statement(
        Clause(<<"ALTER TABLE", Entity(op.table), "RENAME COLUMN", Entity(op.column),
                 "TO", Entity(op.new_name)>>),
        <<>>)>>)

_alter_column(table, column) ==
    <<"ALTER TABLE", Entity(table), "ALTER COLUMN", Entity(column)>>

SchemaMigrator_add_not_null(op) ==
    Return(<<Statement(Clause(_alter_column(op.table, op.column) \o <<"SET NOT NULL">>), <<>>)>>)

SchemaMigrator_drop_not_null(op) ==
    Return(<<Statement(Clause(_alter_column(op.table, op.column) \o <<"DROP NOT NULL">>), <<>>)>>)

SchemaMigrator_rename_table(op) ==
    Return(<<Statement(
        Clause(<<"ALTER TABLE", Entity(op.table), "RENAME TO", Entity(op.new_name)>>),
        <<>>)>>)

(***************************************************************************)
(* MySQLMigrator                                                           *)
(***************************************************************************)
\* MySQLColumn.sql(column_name, is_null); column_name "" stands for None
MySQLColumn_sql(column, column_name, is_null) ==
    IF column.extra # "" THEN Raise("NameError")
    ELSE Return(Clause(
        <<Entity(IF column_name = "" THEN column.name ELSE column_name), column.definition>>
        \o (IF column.key = "UNI" THEN <<"UNIQUE">> ELSE <<>>)
        \o (IF ~is_null THEN <<"NOT NULL">> ELSE <<>>)
        \o (IF column.key = "PRI" THEN <<"PRIMARY KEY">> ELSE <<>>)))

\* _get_column_definition: the DESCRIBE row of the column, or <<>> for False
_get_column_definition(db, table, column_name) ==
    LET T == db.tables[table]
        k == ColumnIndex(T, column_name)
    IN IF k = 0 THEN <<>> ELSE <<T.columns[k]>>

\* add_not_null, drop_not_null: MODIFY with the nullability asked for
MySQLMigrator_modify(db, op, is_null) ==
    IF ~HasTable(db, op.table) THEN Raise("OperationalError")
    ELSE LET found == _get_column_definition(db, op.table, op.column) IN
         IF found = <<>> THEN Raise("AttributeError")
         ELSE LET def == MySQLColumn_sql(found[1], "", is_null) IN
              IF def.raised # "" THEN Raise(def.raised)
              ELSE Return(<<Statement(
                       Clause(<<"ALTER TABLE", Entity(op.table), "MODIFY", def.result>>),
                       <<>>)>>)

MySQLMigrator_add_not_null(db, op) == MySQLMigrator_modify(db, op, FALSE)

MySQLMigrator_drop_not_null(db, op) == MySQLMigrator_modify(db, op, TRUE)

MySQLMigrator_rename_column(db, op) ==
    IF ~HasTable(db, op.table) THEN Raise("OperationalError")
    ELSE LET found == _get_column_definition(db, op.table, op.column) IN
         IF found = <<>> THEN Raise("AttributeError")
         ELSE LET def == MySQLColumn_sql(found[1], op.new_name, found[1].null) IN
              IF def.raised # "" THEN Raise(def.raised)
              ELSE Return(<<Statement(
                       Clause(<<"ALTER TABLE", Entity(op.table), "CHANGE",
                                Entity(op.column), def.result>>),
                       <<>>)>>)

(***************************************************************************)
(* SqliteMigrator                                                          *)
(***************************************************************************)
\* the order of str comparison on identifiers
CharOrder == Digits \o UpperCase \o "_" \o LowerCase

Rank(c) == IF c \in CharsOf(CharOrder)
           THEN CHOOSE i \in 1..Len(CharOrder) : Ch(CharOrder, i) = c ELSE 0

RECURSIVE StrLess(_, _)
StrLess(a, b) ==
    IF b = "" THEN FALSE
    ELSE IF a = "" THEN TRUE
    ELSE IF Head(a) = Head(b) THEN StrLess(Tail(a), Tail(b))
    ELSE Rank(Head(a)) < Rank(Head(b))

\* sorted(names)
RECURSIVE Sorted(_)
Sorted(names) ==
    IF names = {} THEN <<>>
    ELSE LET least == CHOOSE n \in names : \A m \in names \ {n} : StrLess(n, m)
         IN <<least>> \o Sorted(names \ {least})

\* _get_indexes: _IndexMetadata(name, sql, columns) of the table's indexes
_get_indexes(db, table) ==
    LET names == Sorted({n \in DOMAIN db.indexes : db.indexes[n].table = table})
    IN [i \in 1..Len(names) |->
          [name |-> names[i], sql |-> db.indexes[names[i]].sql,
           columns |-> db.indexes[names[i]].columns]]

\* the column-rewrite functions of drop_column, rename_column, add_not_null
\* and drop_not_null; "" stands for None
ApplyFn(fn, new_name, column_name, column_def) ==
    IF fn = "_rename" THEN Replace(column_def, column_name, new_name)
    ELSE IF fn = "_add_not_null" THEN column_def \o " NOT NULL"
    ELSE IF fn = "_drop_not_null" THEN Replace(column_def, "NOT NULL", "")
    ELSE ""

\* column_name.lower().startswith(('foreign', 'primary'))
IsConstraintName(column_name) ==
    StartsWith(Lower(column_name), "foreign") \/ StartsWith(Lower(column_name), "primary")

\* the for loop of _update_column over column_defs, from definition i on
RECURSIVE UpdateColumnDefs(_, _, _, _)
UpdateColumnDefs(defs, i, op, acc) ==
    IF i > Len(defs) \/ acc.raised # "" THEN acc
    ELSE LET column_def == defs[i]
             column_name == column_name_re(column_def)
         IN IF column_name = "" THEN [acc EXCEPT !.raised = "AttributeError"]
            ELSE IF column_name = op.column
            THEN LET new_column_def == ApplyFn(op.fn, op.new_name, column_name, column_def) IN
                 IF new_column_def = "" THEN UpdateColumnDefs(defs, i + 1, op, acc)
                 ELSE IF column_name_re(new_column_def) = ""
                 THEN [acc EXCEPT !.raised = "AttributeError"]
                 ELSE UpdateColumnDefs(defs, i + 1, op,
                        [acc EXCEPT
                           !.new_column_defs = @ \o <<new_column_def>>,
                           !.original_column_names = @ \o <<column_name>>,
                           !.new_column_names = @ \o <<column_name_re(new_column_def)>>])
            ELSE IF IsConstraintName(column_name)
            THEN UpdateColumnDefs(defs, i + 1, op,
                   [acc EXCEPT !.new_column_defs = @ \o <<column_def>>])
            ELSE UpdateColumnDefs(defs, i + 1, op,
                   [acc EXCEPT
                      !.new_column_defs = @ \o <<column_def>>,
                      !.new_column_names = @ \o <<column_name>>,
                      !.original_column_names = @ \o <<column_name>>])

\* dict(zip(original_column_names, new_column_names)).get(column); "" for None
OriginalToNew(original_column_names, new_column_names, column) ==
    LET at == {i \in 1..Len(original_column_names) : original_column_names[i] = column}
    IN IF at = {} THEN ""
       ELSE new_column_names[CHOOSE i \in at : \A j \in at : j <= i]

\* the statements that re-create the indexes
RECURSIVE RecreateIndexes(_, _, _, _)
RecreateIndexes(indexes, i, column_to_update, new_column) ==
    IF i > Len(indexes) THEN <<>>
    ELSE (IF column_to_update \in Range(indexes[i].columns)
          THEN (IF new_column # ""
                THEN <<Statement(Replace(indexes[i].sql, column_to_update, new_column), <<>>)>>
                ELSE <<>>)
          ELSE <<Statement(indexes[i].sql, <<>>)>>)
         \o RecreateIndexes(indexes, i + 1, column_to_update, new_column)

SqliteMigrator__update_column(db, op) ==
    IF ~HasTable(db, op.table) THEN Raise("TypeError")
    ELSE LET create_sql == db.tables[op.table].sql
             indexes == _get_indexes(db, op.table)
             groups == column_re(create_sql)
         IN IF groups = <<>> THEN Raise("AttributeError")
            ELSE LET raw_create == groups[1]
                     cols == UpdateColumnDefs(ParseColumnDefs(create_sql), 1, op,
                                [raised |-> "", new_column_defs |-> <<>>,
                                 new_column_names |-> <<>>, original_column_names |-> <<>>])
                     temp_table == op.table \o "__tmp__"
                     create == Replace(raw_create, op.table, temp_table)
                     columns == Join(", ", cols.new_column_defs)
                     new_column == OriginalToNew(cols.original_column_names,
                                                 cols.new_column_names, op.column)
                 IN IF cols.raised # "" THEN Raise(cols.raised)
                    ELSE Return(
                      << Statement(Clause(<<"DROP TABLE IF EXISTS", Entity(temp_table)>>), <<>>),
                         Statement(Strip(create) \o " (" \o columns \o ")", <<>>),
                         Statement(Clause(<<"INSERT INTO", Entity(temp_table),
                                            EnclosedClause(cols.new_column_names),
                                            "SELECT", CommaClause(cols.original_column_names),
                                            "FROM", Entity(op.table)>>), <<>>),
                         Statement(Clause(<<"DROP TABLE", Entity(op.table)>>), <<>>),
                         Operation("rename_table", temp_table, "", op.table, NoField, "") >>
                      \o RecreateIndexes(indexes, 1, op.column, new_column))

SqliteMigrator_drop_column(op) ==
    Return(<<Operation("_update_column", op.table, op.column, "", NoField, "_drop")>>)

SqliteMigrator_rename_column(op) ==
    Return(<<Operation("_update_column", op.table, op.column, op.new_name, NoField, "_rename")>>)

\* add_not_null whose rewrite of the column definition adds no constraint
SqliteMigrator_add_not_null_unconstrained(op) ==
    Return(<<Operation("_update_column", op.table, op.column, "", NoField, "_drop_not_null")>>)

SqliteMigrator_add_not_null(op) ==
    Return(<<Operation("_update_column", op.table, op.column, "", NoField, "_add_not_null")>>)

SqliteMigrator_drop_not_null(op) ==
    Return(<<Operation("_update_column", op.table, op.column, "", NoField, "_drop_not_null")>>)

(***************************************************************************)
(* Operation.run: the method named self.method, called with generate=True  *)
(***************************************************************************)
Generate(db, op) ==
    LET m == op.method
        lite == db.dialect = "sqlite"
        my == db.dialect = "mysql"
    IN IF m = "add_column" THEN SchemaMigrator_add_column(op)
       ELSE IF m = "alter_add_column" THEN SchemaMigrator_alter_add_column(op)
       ELSE IF m = "apply_default" THEN SchemaMigrator_apply_default(op)
       ELSE IF m = "rename_table" THEN SchemaMigrator_rename_table(op)
       ELSE IF m = "_update_column" THEN SqliteMigrator__update_column(db, op)
       ELSE IF m = "drop_column"
       THEN (IF lite THEN SqliteMigrator_drop_column(op) ELSE SchemaMigrator_drop_column(op))
       ELSE IF m = "rename_column"
       THEN (IF lite THEN SqliteMigrator_rename_column(op)
             ELSE IF my THEN MySQLMigrator_rename_column(db, op)
             ELSE SchemaMigrator_rename_column(op))
       ELSE IF m = "add_not_null"
       THEN (IF lite THEN SqliteMigrator_add_not_null(op)
             ELSE IF my THEN MySQLMigrator_add_not_null(db, op)
             ELSE SchemaMigrator_add_not_null(op))
       ELSE IF m = "drop_not_null"
       THEN (IF lite THEN SqliteMigrator_drop_not_null(op)
             ELSE IF my THEN MySQLMigrator_drop_not_null(db, op)
             ELSE SchemaMigrator_drop_not_null(op))
       ELSE Raise("AttributeError")

(***************************************************************************)
(* The tables and the batches migrate is run on.                           *)
(***************************************************************************)
MaxRows == 2

Scenarios ==
    { [dialect |-> "sqlite", table |-> "story",
       sql |-> "CREATE TABLE \"story\" (\"id\" INTEGER NOT NULL PRIMARY KEY, \"title\" TEXT, \"pub_date\" DATE)",
       index |-> "CREATE INDEX \"story_pub_date\" ON \"story\" (\"pub_date\")",
       targets |-> {"pub_date"}, new_name |-> "publish_date"],
      [dialect |-> "sqlite", table |-> "tags",
       sql |-> "CREATE TABLE \"tags\" (\"id\" INTEGER NOT NULL PRIMARY KEY, \"tag\" TEXT)",
       index |-> "CREATE INDEX \"tags_tag\" ON \"tags\" (\"tag\")",
       targets |-> {"tag"}, new_name |-> "label"],
      [dialect |-> "sqlite", table |-> "person",
       sql |-> "CREATE TABLE \"person\" (\"id\" INTEGER NOT NULL PRIMARY KEY, \"primary_email\" TEXT, \"nick\" TEXT)",
       index |-> "CREATE INDEX \"person_id\" ON \"person\" (\"id\")",
       targets |-> {"nick"}, new_name |-> "alias"],
      [dialect |-> "sqlite", table |-> "item",
       sql |-> "CREATE TABLE \"item\" (\"id\" INTEGER NOT NULL PRIMARY KEY, \"qty\" INTEGER CHECK (max(abs(\"qty\"), 1) > 0), \"note\" TEXT)",
       index |-> "CREATE INDEX \"item_id\" ON \"item\" (\"id\")",
       targets |-> {"note"}, new_name |-> "memo"],
      [dialect |-> "postgres", table |-> "story",
       sql |-> "CREATE TABLE \"story\" (\"id\" INTEGER NOT NULL PRIMARY KEY, \"title\" TEXT, \"pub_date\" DATE)",
       index |-> "CREATE INDEX \"story_pub_date\" ON \"story\" (\"pub_date\")",
       targets |-> {"pub_date"}, new_name |-> "publish_date"],
      [dialect |-> "mysql", table |-> "story",
       sql |-> "CREATE TABLE \"story\" (\"id\" INTEGER AUTO_INCREMENT NOT NULL PRIMARY KEY, \"title\" VARCHAR(255) UNIQUE, \"pub_date\" DATE)",
       index |-> "CREATE INDEX \"story_pub_date\" ON \"story\" (\"pub_date\")",
       targets |-> {"id", "title"}, new_name |-> "headline"] }

\* the cell of row r in a column: NULL in a row of nulls when the column
\* allows it, a value of its own otherwise (the last row is the row of nulls,
\* when there is one)
InitialCell(column, r, nulls) ==
    IF column.null /\ r \in nulls THEN NullValue ELSE column.name \o Ch(Digits, r + 1)

\* the database of a scenario: its table as the scenario's CREATE TABLE
\* makes it, holding n rows, and its index
InitialDatabase(sc, n, nulls) ==
    LET empty == [dialect |-> sc.dialect, tables |-> <<>>, indexes |-> <<>>]
        T == CreateTable(empty, sc.sql).db.tables[sc.table]
        named == Names(sc.index)
    IN [dialect |-> sc.dialect,
        tables |-> With(<<>>, sc.table,
          [sql |-> IF sc.dialect = "sqlite" THEN T.sql ELSE "",
           columns |-> T.columns,
           rows |-> [r \in 1..n |-> [c \in 1..Len(T.columns) |->
                                        InitialCell(T.columns[c], r, nulls)]]]),
        indexes |-> With(<<>>, named[1],
          [table |-> named[2], sql |-> sc.index,
           columns |-> SubSeq(named, 3, Len(named))])]

Field(null, kind, value, foreign_key) ==
    [null |-> null, default |-> [kind |-> kind, value |-> value],
     foreign_key |-> foreign_key, to_field |-> "", db_field |-> "TEXT"]

Fields ==
    { Field(TRUE, "none", "", FALSE),          \* nullable
      Field(FALSE, "value", "open", FALSE),    \* not null, a default
      Field(FALSE, "callable", "made", FALSE), \* not null, a callable default
      Field(FALSE, "none", "", FALSE),         \* not null, no default
      Field(TRUE, "none", "", TRUE) }          \* a foreign key without to_field

NewColumn == "status"

\* the operations a caller builds: migrator.<method>(...) without generate
ScenarioOperations(sc) ==
    {Operation("add_column", sc.table, NewColumn, "", f, "") : f \in Fields}
    \cup {Operation("drop_column", sc.table, NewColumn, "", NoField, "")}
    \cup {Operation(m, sc.table, c, "", NoField, "") :
            m \in {"drop_column", "add_not_null", "drop_not_null"}, c \in sc.targets}
    \cup {Operation("rename_column", sc.table, c, sc.new_name, NoField, "") : c \in sc.targets}

\* migrate is called with one operation or with two
Batches(sc) ==
    {<<a>> : a \in ScenarioOperations(sc)}
    \cup {<<a, b>> : a \in ScenarioOperations(sc), b \in ScenarioOperations(sc)}

NoText == ""

InitDriver(scenarios) ==
    \E sc \in scenarios, n \in 0..MaxRows :
      \E nulls \in {{}, {n} \cap (1..n)}, batch \in Batches(sc) :
        /\ database = InitialDatabase(sc, n, nulls)
        /\ original = database
        /\ operations = batch
        /\ next_op = 1
        /\ pending = <<>>
        /\ executed = <<>>
        /\ pc = "running"
        /\ error = ""

Init ==
    /\ InitDriver(Scenarios)
    /\ create_table = NoText
    /\ column_defs = <<>>

(***************************************************************************)
(* migrate, Operation.run, Operation._handle_result, Operation.execute     *)
(***************************************************************************)
\* the caller of migrate gets the exception
Propagate(exception) ==
    /\ pc' = "failed"
    /\ error' = exception

\* a _handle_result that puts the items behind what was already waiting
HandleResultBehind(made, rest) ==
    IF made.raised # ""
    THEN /\ Propagate(made.raised)
         /\ UNCHANGED <<database, pending, executed>>
    ELSE /\ pending' = rest \o made.result
         /\ UNCHANGED <<database, executed, pc, error>>

\* _handle_result on what the method returned: an exception goes to the
\* caller; the items of a list are handled in order, before anything that
\* was waiting
HandleResult(made, rest) ==
    IF made.raised # ""
    THEN /\ Propagate(made.raised)
         /\ UNCHANGED <<database, pending, executed>>
    ELSE /\ pending' = made.result \o rest
         /\ UNCHANGED <<database, executed, pc, error>>

\* Operation.run: call the method, hand its result to _handle_result
RunOperation(op, rest) == HandleResult(Generate(database, op), rest)

\* migrate's for loop: run the next operation; return after the last
Migrate ==
    /\ pc = "running" /\ pending = <<>>
    /\ IF next_op <= Len(operations)
       THEN /\ RunOperation(operations[next_op], <<>>)
            /\ next_op' = next_op + 1
       ELSE /\ pc' = "done"
            /\ UNCHANGED <<database, pending, executed, error, next_op>>
    /\ UNCHANGED <<operations, original, parserVars>>

\* _handle_result on an Operation: result.run()
HandleOperation ==
    /\ pc = "running" /\ pending # <<>>
    /\ Head(pending).kind = "op"
    /\ RunOperation(Head(pending), Tail(pending))
    /\ UNCHANGED <<operations, next_op, original, parserVars>>

\* the answer of execute_sql: the statement applied, or an exception, for the
\* statement's own reasons or for reasons of the database's (a lock, a lost
\* connection)
Answer(node, refused) ==
    IF refused THEN Fail(database, "OperationalError")
    ELSE Exec(database, node.sql, node.params)

\* a Submit that swallows the exception of execute_sql
SubmitAndGoOn(node, rest, answer) ==
    /\ executed' = Append(executed, [operation |-> next_op - 1, sql |-> node.sql,
                                     params |-> node.params, ok |-> answer.ok,
                                     error |-> answer.error])
    /\ database' = answer.db
    /\ pending' = rest
    /\ UNCHANGED <<pc, error>>

\* what execute does with the answer of execute_sql: the statement is on
\* record; an exception goes to the caller
Submit(node, rest, answer) ==
    /\ executed' = Append(executed, [operation |-> next_op - 1, sql |-> node.sql,
                                     params |-> node.params, ok |-> answer.ok,
                                     error |-> answer.error])
    /\ database' = answer.db
    /\ IF answer.ok
       THEN /\ pending' = rest
            /\ UNCHANGED <<pc, error>>
       ELSE /\ Propagate(answer.error)
            /\ UNCHANGED pending

\* Operation.execute: compile the node and submit it
Execute(node, rest, refused) == Submit(node, rest, Answer(node, refused))

\* _handle_result on a Node: self.execute(result)
HandleNode ==
    /\ pc = "running" /\ pending # <<>>
    /\ Head(pending).kind = "node"
    /\ \E refused \in BOOLEAN : Execute(Head(pending), Tail(pending), refused)
    /\ UNCHANGED <<operations, next_op, original, parserVars>>

Next == Migrate \/ HandleOperation \/ HandleNode

Spec == Init /\ [][Next]_vars

(***************************************************************************)
(* The column-list parser of _update_column on its own: the CREATE TABLE   *)
(* text is any header followed by a parenthesised body over BodyAlphabet.  *)
(***************************************************************************)
MaxBodyLen == 5

BodyAlphabet == {"a", ",", "(", ")"}

RECURSIVE TextsOfLen(_)
TextsOfLen(n) ==
    IF n = 0 THEN {""}
    ELSE {t \o c : t \in TextsOfLen(n - 1), c \in BodyAlphabet}

Bodies == UNION {TextsOfLen(n) : n \in 0..MaxBodyLen}

CreateTableOf(body) == "CREATE TABLE \"t\" (" \o body \o ")"

InitSplit ==
    /\ database = [dialect |-> "sqlite", tables |-> <<>>, indexes |-> <<>>]
    /\ original = database
    /\ operations = <<>>
    /\ next_op = 1
    /\ pending = <<>>
    /\ executed = <<>>
    /\ pc = "running"
    /\ error = ""
    /\ \E body \in Bodies : create_table = CreateTableOf(body)
    /\ column_defs = <<>>

\* _update_column up to the loop over column_defs: column_re on the CREATE
\* TABLE text (None raises AttributeError), column_split_re on its group 2
ParseCreateTable ==
    /\ pc = "running" /\ create_table # NoText
    /\ IF column_re(create_table) = <<>>
       THEN /\ Propagate("AttributeError")
            /\ UNCHANGED column_defs
       ELSE /\ column_defs' = ParseColumnDefs(create_table)
            /\ pc' = "done"
            /\ UNCHANGED error
    /\ UNCHANGED <<database, operations, next_op, pending, executed, original, create_table>>

NextSplit == ParseCreateTable

SpecSplit == InitSplit /\ [][NextSplit]_vars

(***************************************************************************)
(* What the runs are measured against.                                     *)
(***************************************************************************)
Last(seq) == seq[Len(seq)]

\* the errors execute_sql raises
DatabaseErrors == {"OperationalError", "IntegrityError"}

\* the table the batch works on
BatchTable == operations[1].table

\* the database itself rejects the statement the run failed on: submitted
\* again it would fail again
RejectedByDatabase ==
    /\ pc = "failed" /\ executed # <<>> /\ ~Last(executed).ok
    /\ ~Exec(database, Last(executed).sql, Last(executed).params).ok

\* the run failed on a statement the database would accept: the failure is
\* the database's own (a lock, a lost connection)
RefusedFromOutside ==
    /\ pc = "failed" /\ executed # <<>> /\ ~Last(executed).ok
    /\ Exec(database, Last(executed).sql, Last(executed).params).ok

\* the statements submitted for the operation at position k of the batch
StatementsOf(k) ==
    LET of_k(e) == e.operation = k
        mine == SelectSeq(executed, of_k)
    IN [i \in 1..Len(mine) |-> [sql |-> mine[i].sql, params |-> mine[i].params]]

IsPrefix(a, b) == Len(a) <= Len(b) /\ \A i \in 1..Len(a) : a[i] = b[i]

\* the field add_column refuses
Misconfigured(field) ==
    \/ ~field.null /\ field.default.kind = "none"
    \/ field.foreign_key /\ field.to_field = ""

\* What a run is to submit, told as the source tells it: run calls the
\* method and _handle_result walks the result, an item at a time, entering
\* an Operation before going on to the item after it.  A walk is
\* [db, log, raised]; it ends at the first exception.
RECURSIVE Walk(_, _, _)
Walk(walk, items, k) ==
    IF items = <<>> \/ walk.raised # "" THEN walk
    ELSE LET item == Head(items) IN
         IF item.kind = "node"
         THEN LET answer == Exec(walk.db, item.sql, item.params) IN
              Walk([db |-> answer.db,
                    log |-> Append(walk.log, [operation |-> k, sql |-> item.sql,
                                              params |-> item.params]),
                    raised |-> IF answer.ok THEN "" ELSE answer.error],
                   Tail(items), k)
         ELSE LET made == Generate(walk.db, item) IN
              IF made.raised # "" THEN [walk EXCEPT !.raised = made.raised]
              ELSE Walk(Walk(walk, made.result, k), Tail(items), k)

RECURSIVE WalkBatch(_, _)
WalkBatch(walk, k) ==
    IF k > Len(operations) \/ walk.raised # "" THEN walk
    ELSE WalkBatch(Walk(walk, <<operations[k]>>, k), k + 1)

\* the statements of the batch on the database as migrate found it, when
\* nothing but the statements themselves makes the database fail
Expected == WalkBatch([db |-> original, log |-> <<>>, raised |-> ""], 1).log

Submitted ==
    [i \in 1..Len(executed) |-> [operation |-> executed[i].operation,
                                 sql |-> executed[i].sql, params |-> executed[i].params]]

\* the database after the statements of the log that succeeded
RECURSIVE Replay(_, _, _)
Replay(db, log, i) ==
    IF i > Len(log) THEN db
    ELSE LET answer == Exec(db, log[i].sql, log[i].params) IN
         IF log[i].ok /\ answer.ok THEN Replay(answer.db, log, i + 1)
         ELSE Replay(db, log, i + 1)

\* the parentheses of s pair up
Balanced(s) ==
    /\ DepthAt(s, Len(s) + 1) = 0
    /\ \A i \in 1..Len(s) : DepthAt(s, i + 1) >= 0

\* the body of the CREATE TABLE text: what lies between the first "(" and
\* the last ")"
BodyOf(sql) == SubSeq(sql, Find(sql, "(", 1) + 1, LastIndexOf(sql, ")", Len(sql)) - 1)

\* the top-level comma-separated items of a body, each stripped
TopLevelDefs(body) ==
    LET items == TopLevelItems(body) IN [i \in 1..Len(items) |-> Strip(items[i])]

\* C3: once the parser has run on a CREATE TABLE text whose body has balanced
\* parentheses and no empty item, column_defs holds exactly the items that
\* the commas outside every parenthesised group separate, whatever the depth
\* of the groups.
SplitAtTopLevelCommas ==
    (pc = "done" /\ create_table # NoText /\ Balanced(BodyOf(create_table))
        /\ "" \notin Range(TopLevelDefs(BodyOf(create_table))))
    => column_defs = TopLevelDefs(BodyOf(create_table))

(***************************************************************************)
(* The claims about migrate and the migrators.                             *)
(***************************************************************************)
\* C4: at every moment the statements submitted so far carry the positions
\* of their operations in argument order (all of one operation before any of
\* the next); when the run has ended they are, one for one and in the same
\* order, the statements that the depth-first walk of the generated results
\* yields, each leaf once: all of them when migrate returned, the first of
\* them up to the failing one when it raised.
InArgumentOrderDepthFirst ==
    /\ \A i, j \in 1..Len(executed) :
          i <= j => executed[i].operation <= executed[j].operation
    /\ pc = "done" => Submitted = Expected
    /\ pc = "failed" => IsPrefix(Submitted, Expected)

\* C4 happens: a batch of two operations on the rebuild dialect returned,
\* each operation having submitted the statements of a nested Operation.
TwoRebuildsDone ==
    /\ pc = "done" /\ database.dialect = "sqlite" /\ Len(operations) = 2
    /\ \E i, j \in 1..Len(executed) :
          /\ executed[i].operation = 1 /\ StartsWith(executed[i].sql, "ALTER TABLE")
          /\ executed[j].operation = 2 /\ StartsWith(executed[j].sql, "CREATE INDEX")
          /\ Contains(executed[i].sql, " RENAME TO ")

\* C5: a statement that failed is the last one submitted, at every moment
\* after it: it is not submitted again and nothing is submitted after it, by
\* its operation or by a later one.  When the run has failed on a statement,
\* the caller holds the error execute_sql raised for it, and the database is
\* what the statements before it made of it: nothing is rolled back and
\* nothing is cleaned up.
FailStopNoRollback ==
    /\ \A i \in 1..Len(executed) :
          ~executed[i].ok => (i = Len(executed) /\ pc = "failed")
    /\ (pc = "failed" /\ executed # <<>> /\ ~Last(executed).ok) =>
          /\ error = Last(executed).error
          /\ error \in DatabaseErrors
          /\ database = Replay(original, executed, 1)

\* C5 happens: a statement failed after others had changed the database, and
\* an operation of the batch was still to run.
FailedMidBatch ==
    /\ pc = "failed" /\ Len(executed) >= 3 /\ ~Last(executed).ok
    /\ database # original
    /\ next_op <= Len(operations)

\* the three statements of add_column for a field that is not null, the one
\* statement for a field that is
AddColumnStatements(op) ==
    <<[sql |-> "ALTER TABLE \"" \o op.table \o "\" ADD COLUMN \"" \o op.column \o "\" TEXT",
       params |-> <<>>]>>
    \o (IF op.field.null THEN <<>>
        ELSE <<[sql |-> "UPDATE \"" \o op.table \o "\" SET \"" \o op.column \o "\" = ?",
                params |-> <<op.field.default.value>>],
               [sql |-> "ALTER TABLE \"" \o op.table \o "\" ALTER COLUMN \"" \o op.column
                        \o "\" SET NOT NULL",
                params |-> <<>>]>>)

\* C6: under the default strategy (the dialect that overrides none of its
\* methods here) the statements submitted for an add_column of a well
\* configured field are, at every moment, the first of: ADD COLUMN with the
\* column nullable, UPDATE of the column to the resolved default, SET NOT
\* NULL when the field is not null, and the ADD COLUMN alone when it is
\* nullable; when migrate has returned they are all of them, and an
\* add_column that ends the batch leaves the default in every row.
AddColumnThreeStatements ==
    database.dialect = "postgres" =>
      \A k \in 1..Len(operations) :
        (operations[k].method = "add_column" /\ ~Misconfigured(operations[k].field)) =>
          /\ IsPrefix(StatementsOf(k), AddColumnStatements(operations[k]))
          /\ pc = "done" => StatementsOf(k) = AddColumnStatements(operations[k])
          /\ (pc = "done" /\ k = Len(operations) /\ ~operations[k].field.null) =>
                /\ HasColumn(database, operations[k].table, operations[k].column)
                /\ \A r \in 1..Len(database.tables[operations[k].table].rows) :
                      Cells(database.tables[operations[k].table], operations[k].column)[r]
                        = operations[k].field.default.value

\* C6 happens: add_column of a field that is not null and has a default has
\* run to its end on a table that holds rows.
AddedWithDefault ==
    /\ pc = "done" /\ database.dialect = "postgres" /\ Len(operations) = 1
    /\ operations[1].method = "add_column" /\ ~operations[1].field.null
    /\ Len(executed) = 3
    /\ Len(database.tables[BatchTable].rows) = MaxRows

\* C9: when migrate comes to an add_column whose field is not null and has no
\* default, or is a foreign key that names no referenced column, that step
\* ends the run with the configuration error, ValueError, submits nothing and
\* leaves the database as it was.
ConfigurationErrorBeforeSql ==
    [][(/\ pc = "running" /\ pending = <<>> /\ next_op <= Len(operations)
        /\ operations[next_op].method = "add_column"
        /\ Misconfigured(operations[next_op].field))
       => (/\ pc' = "failed" /\ error' = "ValueError"
           /\ executed' = executed /\ database' = database /\ pending' = <<>>)]_vars

\* C9 happens: the add_column of a misconfigured field has raised after an
\* earlier operation of the batch had submitted its statements.
ConfigurationErrorRaised ==
    /\ pc = "failed" /\ error = "ValueError" /\ next_op = 3
    /\ operations[2].method = "add_column" /\ Misconfigured(operations[2].field)
    /\ executed # <<>> /\ \A i \in 1..Len(executed) : executed[i].operation = 1 /\ executed[i].ok

\* C10: when the first operation of the batch is add_not_null on a column
\* that holds NULL in some row, migrate never returns; if the run fails, it
\* fails on a statement, with the error the database raised; nothing is
\* submitted for a later operation; the table keeps every row with every
\* value, the NULLs included.  In the rebuild dialect the DROP TABLE of the
\* original is never submitted, and a failure that is the statement's own is
\* the failure of the INSERT that copies the rows into the temporary table.
AddNotNullRefusesNulls ==
    (/\ operations[1].method = "add_not_null"
     /\ HasColumn(original, BatchTable, operations[1].column)
     /\ HoldsNull(original.tables[BatchTable], operations[1].column)) =>
       /\ pc # "done"
       /\ pc = "failed" => (/\ executed # <<>> /\ ~Last(executed).ok
                            /\ error = Last(executed).error /\ error \in DatabaseErrors)
       /\ \A i \in 1..Len(executed) : executed[i].operation = 1
       /\ HasTable(database, BatchTable)
       /\ database.tables[BatchTable].rows = original.tables[BatchTable].rows
       /\ ColumnNames(database.tables[BatchTable]) = ColumnNames(original.tables[BatchTable])
       /\ database.dialect = "sqlite" =>
             /\ \A i \in 1..Len(executed) :
                   executed[i].sql # "DROP TABLE \"" \o BatchTable \o "\""
             /\ RejectedByDatabase => StartsWith(Last(executed).sql, "INSERT INTO ")

\* C10 happens: the rebuild for add_not_null has failed at the copy, with the
\* database's IntegrityError, on a table that held a NULL in the column.
CopyRefusedNulls ==
    /\ pc = "failed" /\ database.dialect = "sqlite"
    /\ operations[1].method = "add_not_null"
    /\ HoldsNull(original.tables[BatchTable], operations[1].column)
    /\ Len(executed) = 3 /\ StartsWith(Last(executed).sql, "INSERT INTO ")
    /\ error = "IntegrityError"

\* the name a column of the original table has after the operation, "" when
\* the operation drops it
NameAfter(op, c) ==
    IF c # op.column THEN c
    ELSE IF op.method = "drop_column" THEN ""
    ELSE IF op.method = "rename_column" THEN op.new_name
    ELSE c

RebuildMethods == {"drop_column", "rename_column", "add_not_null", "drop_not_null"}

\* the batch is one rebuild operation of the SQLite strategy on a column the
\* table has
OneRebuild ==
    /\ database.dialect = "sqlite" /\ Len(operations) = 1
    /\ operations[1].method \in RebuildMethods
    /\ HasColumn(original, BatchTable, operations[1].column)

\* C1: when a rebuild operation of the SQLite strategy has run to completion,
\* the table has as many rows as before, and every column that survives
\* holds in every row, under the name it has now, the value it held before.
RebuildPreservesRows ==
    (OneRebuild /\ pc = "done") =>
       /\ HasTable(database, BatchTable)
       /\ Len(database.tables[BatchTable].rows) = Len(original.tables[BatchTable].rows)
       /\ \A c \in Range(ColumnNames(original.tables[BatchTable])) :
             NameAfter(operations[1], c) # "" =>
               /\ HasColumn(database, BatchTable, NameAfter(operations[1], c))
               /\ Cells(database.tables[BatchTable], NameAfter(operations[1], c))
                    = Cells(original.tables[BatchTable], c)

\* the columns of an index after the operation
ColumnsAfter(op, columns) == [i \in 1..Len(columns) |-> NameAfter(op, columns[i])]

\* C2: a rebuild is not stopped by a statement of its own that re-creates an
\* index, and when it has run to completion every index the table had is
\* accounted for: one on the changed column is there on the new name when the
\* column was renamed and is gone when the column was dropped; one that does
\* not include the column is there with the definition it had.
IndexesFollowRebuild ==
    OneRebuild =>
       /\ ~(RejectedByDatabase /\ StartsWith(Last(executed).sql, "CREATE INDEX "))
       /\ pc = "done" =>
            \A n \in DOMAIN original.indexes :
               LET index == original.indexes[n]
                   after == {m \in DOMAIN database.indexes :
                               database.indexes[m].table = BatchTable}
               IN IF operations[1].column \notin Range(index.columns)
                  THEN n \in after /\ database.indexes[n].sql = index.sql
                  ELSE IF operations[1].method = "drop_column"
                  THEN \A m \in after : operations[1].column \notin Range(database.indexes[m].columns)
                  ELSE \E m \in after :
                          /\ database.indexes[m].columns = ColumnsAfter(operations[1], index.columns)
                          /\ Contains(database.indexes[m].sql,
                                      Entity(NameAfter(operations[1], operations[1].column)))

\* C7: add_column of a well configured field followed by drop_column of the
\* same column, on a table that did not have it, is stopped by nothing but a
\* failure from outside, and when it has run to completion the table has the
\* columns it had at the start.
AddThenDropRestoresColumns ==
    (/\ Len(operations) = 2
     /\ operations[1].method = "add_column" /\ ~Misconfigured(operations[1].field)
     /\ operations[2].method = "drop_column" /\ operations[2].column = operations[1].column
     /\ ~HasColumn(original, BatchTable, operations[1].column)) =>
       /\ pc = "failed" => RefusedFromOutside
       /\ pc = "done" =>
            /\ HasTable(database, BatchTable)
            /\ Range(ColumnNames(database.tables[BatchTable]))
                 = Range(ColumnNames(original.tables[BatchTable]))

\* C8: add_not_null, drop_not_null or rename_column of the MySQL strategy on
\* a column the table has submits exactly one statement, an ALTER TABLE with
\* MODIFY or CHANGE, and when it has run to completion the column has the
\* type, the key and the extra attribute it had, under the name asked for.
ModifyKeepsDefinition ==
    (/\ database.dialect = "mysql" /\ Len(operations) = 1
     /\ operations[1].method \in {"add_not_null", "drop_not_null", "rename_column"}
     /\ HasColumn(original, BatchTable, operations[1].column)) =>
       /\ pc # "running" =>
            /\ Len(executed) = 1
            /\ \/ Contains(executed[1].sql, " MODIFY ")
               \/ Contains(executed[1].sql, " CHANGE ")
       /\ pc = "done" =>
            LET was == original.tables[BatchTable]
                is == database.tables[BatchTable]
                old == was.columns[ColumnIndex(was, operations[1].column)]
                name == NameAfter(operations[1], operations[1].column)
            IN /\ HasColumn(database, BatchTable, name)
               /\ is.columns[ColumnIndex(is, name)].definition = old.definition
               /\ is.columns[ColumnIndex(is, name)].key = old.key
               /\ is.columns[ColumnIndex(is, name)].extra = old.extra
               /\ is.columns[ColumnIndex(is, name)].null =
                    (IF operations[1].method = "rename_column" THEN old.null
                     ELSE operations[1].method = "drop_not_null")

====
